---- MODULE Spec2Model ----
(***************************************************************************)
(* Resilience core of the microservice template:                           *)
(*   - CircuitBreaker and HttpExternalService::execute_with_retry          *)
(*     (src/src/services/external_service.rs)                              *)
(*   - the HTTP operations and health_check of HttpExternalService         *)
(*   - ShutdownCoordinator and GracefulShutdown (src/src/shutdown.rs)      *)
(*   - the shutdown components (src/src/shutdown.rs)                       *)
(*   - main(): wiring, select! and teardown (src/src/main.rs)              *)
(*                                                                         *)
(* Specifications:                                                         *)
(*   SpecCB       the breaker driven directly, method by method            *)
(*   SpecClient   callers running execute_with_retry on one client         *)
(*   SpecHttp     one task making requests and health checks               *)
(*   SpecCoord    register() / shutdown_all() on one coordinator           *)
(*   SpecOrch     execute_shutdown() around a shutdown_fn                  *)
(*   SpecComp     shutdown() called on the shutdown components directly    *)
(*   SpecMain     main() from the wiring of the coordinator to its return  *)
(***************************************************************************)
EXTENDS Integers, Sequences, FiniteSets, TLC

(***************************************************************************)
(* Bounds of the model                                                     *)
(***************************************************************************)
MaxThreshold == 2          \* failure_threshold ranges over 0..MaxThreshold
MaxOpenTimeout == 2        \* open timeout (seconds) ranges over 1..MaxOpenTimeout
MaxTime == 3               \* the clock stops at MaxTime seconds
MaxFailureCount == 3       \* cap on the u32 failure_count
MaxRetries == 3            \* max_retries ranges over 0..MaxRetries
MaxComponents == 3         \* components registered with the coordinator
MaxShutdownRuns == 2       \* shutdown_all() calls on the coordinator
MaxShutdownTimeout == 2    \* shutdown_timeout (seconds) ranges over 0..MaxShutdownTimeout
MaxElapsed == 3            \* seconds execute_shutdown is followed; shutdown_fn needs 0..MaxElapsed
MaxWork == 2               \* ticks a component's resource operation needs: 0..MaxWork
MaxCompTimeout == 2        \* timeout of a shutdown component, in ticks
MaxShutdownCalls == 3      \* shutdown() calls made on the components directly

(***************************************************************************)
(* Program constants                                                       *)
(***************************************************************************)
HalfOpenMaxCalls == 3      \* CircuitBreaker::new: half_open_max_calls: 3

(***************************************************************************)
(* Option<Instant>: None is the empty sequence, Some(t) is <<t>>           *)
(***************************************************************************)
None == << >>
Some(t) == << t >>

VARIABLES
    cb,             \* the CircuitBreaker struct behind the client's Mutex
    now,            \* Instant::now(), in seconds
    last_op,        \* history: the operation applied by the last step
    last_ret,       \* history: what the last can_execute() returned
    consec,         \* history: record_failure() calls applied while Closed since
                    \*          Closed was entered or a success was recorded
    hsucc,          \* history: record_success() calls applied since HalfOpen was entered
    config,         \* HttpClientConfig of the client, and the build's overflow checking
    call,           \* per caller: its execute_with_retry call (locals, position, history)
    components,     \* ShutdownCoordinator.components, in registration order
    sa,             \* the shutdown_all() call: position, and history of the call
    orch,           \* GracefulShutdown and its execute_shutdown() call
    fn,             \* the shutdown_fn future that execute_shutdown awaits
    rec,            \* history: failures recorded on the breaker, state before the last step
    req,            \* the HTTP request (verb, response, classification) a caller makes
    main,           \* main(): its position, what ended Running, the value it returns
    active,         \* the component.shutdown() future being awaited
    mutex           \* the Mutex around the breaker: its holders, the lock section each
                    \* task is in, and history of the sections

cbvars == << cb, now, last_op, last_ret, consec, hsucc, rec >>
hist == << last_op, last_ret, consec, hsucc, rec >>
clvars == << config, call, req, mutex >>
sdvars == << components, sa, orch, fn, main, active >>
vars == << cb, now, last_op, last_ret, consec, hsucc, config, call, components, sa, orch, fn,
           rec, req, main, active, mutex >>

\* the tasks that call execute_with_retry on the one client
Callers == { "c1", "c2" }

\* the tasks that lock the breaker: the callers, and one task that calls
\* circuit_breaker_status() and reset_circuit_breaker()
Tasks == Callers \cup { "admin" }

\* Mutex::new(circuit_breaker): nobody holds the lock. section is the lock
\* section a task is in; seen (the breaker as the task found it when it got
\* the lock) and admitted (can_execute() calls that returned true since
\* HalfOpen was entered) are history.
MutexNew ==
    [ holders  |-> { },
      section  |-> [ a \in Tasks |-> "none" ],
      seen     |-> [ a \in Tasks |-> None ],
      admitted |-> 0 ]

(***************************************************************************)
(* CircuitBreaker                                                          *)
(***************************************************************************)
\* CircuitBreaker::new(failure_threshold, timeout_seconds)
CircuitBreakerNew(failure_threshold, timeout_seconds) ==
    [ state               |-> "Closed",
      failure_count       |-> 0,
      success_count       |-> 0,
      last_failure_time   |-> None,
      failure_threshold   |-> failure_threshold,
      timeout             |-> timeout_seconds,
      half_open_max_calls |-> HalfOpenMaxCalls ]

\* Instant::elapsed() of an instant taken at time then, read at time t
Elapsed(then, t) == IF t >= then THEN t - then ELSE 0

\* faulty variant of can_execute: the Open breaker is released only
\* strictly after the timeout (> for >=)
can_execute_gt(c, t) ==
    CASE c.state = "Closed" -> [ cb |-> c, ret |-> TRUE ]
      [] c.state = "Open" ->
            IF c.last_failure_time /= None
            THEN IF Elapsed(c.last_failure_time[1], t) > c.timeout
                 THEN [ cb  |-> [ c EXCEPT !.state = "HalfOpen", !.success_count = 0 ],
                        ret |-> TRUE ]
                 ELSE [ cb |-> c, ret |-> FALSE ]
            ELSE [ cb |-> c, ret |-> FALSE ]
      [] c.state = "HalfOpen" ->
            [ cb |-> c, ret |-> c.success_count < c.half_open_max_calls ]

\* faulty variant of can_execute: success_count is reset on every query of
\* an Open breaker, also on the ones that are refused
can_execute_resets(c, t) ==
    CASE c.state = "Closed" -> [ cb |-> c, ret |-> TRUE ]
      [] c.state = "Open" ->
            LET c0 == [ c EXCEPT !.success_count = 0 ]
            IN  IF c.last_failure_time /= None
                THEN IF Elapsed(c.last_failure_time[1], t) >= c.timeout
                     THEN [ cb |-> [ c0 EXCEPT !.state = "HalfOpen" ], ret |-> TRUE ]
                     ELSE [ cb |-> c0, ret |-> FALSE ]
                ELSE [ cb |-> c0, ret |-> FALSE ]
      [] c.state = "HalfOpen" ->
            [ cb |-> c, ret |-> c.success_count < c.half_open_max_calls ]

\* CircuitBreaker::can_execute(&mut self) -> bool, called at time t;
\* yields the breaker after the call and the returned value
can_execute(c, t) ==
    CASE c.state = "Closed" -> [ cb |-> c, ret |-> TRUE ]
      [] c.state = "Open" ->
            IF c.last_failure_time /= None
            THEN IF Elapsed(c.last_failure_time[1], t) >= c.timeout
                 THEN [ cb  |-> [ c EXCEPT !.state = "HalfOpen", !.success_count = 0 ],
                        ret |-> TRUE ]
                 ELSE [ cb |-> c, ret |-> FALSE ]
            ELSE [ cb |-> c, ret |-> FALSE ]
      [] c.state = "HalfOpen" ->
            [ cb |-> c, ret |-> c.success_count < c.half_open_max_calls ]

\* faulty variant of record_success: the probation ends one success late
\* (> for >=)
record_success_gt(c) ==
    CASE c.state = "Closed" -> [ c EXCEPT !.failure_count = 0 ]
      [] c.state = "HalfOpen" ->
            LET c1 == [ c EXCEPT !.success_count = c.success_count + 1 ]
            IN  IF c1.success_count > c1.half_open_max_calls
                THEN [ c1 EXCEPT !.state = "Closed", !.failure_count = 0 ]
                ELSE c1
      [] c.state = "Open" -> c

\* faulty variant of record_success: the end of the probation leaves
\* failure_count as it is
record_success_keeps_failures(c) ==
    CASE c.state = "Closed" -> [ c EXCEPT !.failure_count = 0 ]
      [] c.state = "HalfOpen" ->
            LET c1 == [ c EXCEPT !.success_count = c.success_count + 1 ]
            IN  IF c1.success_count >= c1.half_open_max_calls
                THEN [ c1 EXCEPT !.state = "Closed" ]
                ELSE c1
      [] c.state = "Open" -> c

\* CircuitBreaker::record_success(&mut self)
record_success(c) ==
    CASE c.state = "Closed" -> [ c EXCEPT !.failure_count = 0 ]
      [] c.state = "HalfOpen" ->
            LET c1 == [ c EXCEPT !.success_count = c.success_count + 1 ]
            IN  IF c1.success_count >= c1.half_open_max_calls
                THEN [ c1 EXCEPT !.state = "Closed", !.failure_count = 0 ]
                ELSE c1
      [] c.state = "Open" -> c

\* faulty variant of record_failure: the breaker trips one failure late
\* (> for >=)
record_failure_gt(c, t) ==
    LET c1 == [ c EXCEPT !.failure_count = c.failure_count + 1,
                         !.last_failure_time = Some(t) ]
    IN  CASE c1.state = "Closed" ->
                IF c1.failure_count > c1.failure_threshold
                THEN [ c1 EXCEPT !.state = "Open" ]
                ELSE c1
          [] c1.state = "HalfOpen" -> [ c1 EXCEPT !.state = "Open" ]
          [] c1.state = "Open" -> c1

\* faulty variant of record_failure: the failure is counted and the instant
\* of the failure not stored
record_failure_no_time(c, t) ==
    LET c1 == [ c EXCEPT !.failure_count = c.failure_count + 1 ]
    IN  CASE c1.state = "Closed" ->
                IF c1.failure_count >= c1.failure_threshold
                THEN [ c1 EXCEPT !.state = "Open" ]
                ELSE c1
          [] c1.state = "HalfOpen" -> [ c1 EXCEPT !.state = "Open" ]
          [] c1.state = "Open" -> c1

\* faulty variant of record_failure: nothing is done while the breaker is Open
record_failure_open_noop(c, t) ==
    LET c1 == [ c EXCEPT !.failure_count = c.failure_count + 1,
                         !.last_failure_time = Some(t) ]
    IN  CASE c.state = "Closed" ->
                IF c1.failure_count >= c1.failure_threshold
                THEN [ c1 EXCEPT !.state = "Open" ]
                ELSE c1
          [] c.state = "HalfOpen" -> [ c1 EXCEPT !.state = "Open" ]
          [] c.state = "Open" -> c

\* CircuitBreaker::record_failure(&mut self), called at time t
record_failure(c, t) ==
    LET c1 == [ c EXCEPT !.failure_count = c.failure_count + 1,
                         !.last_failure_time = Some(t) ]
    IN  CASE c1.state = "Closed" ->
                IF c1.failure_count >= c1.failure_threshold
                THEN [ c1 EXCEPT !.state = "Open" ]
                ELSE c1
          [] c1.state = "HalfOpen" -> [ c1 EXCEPT !.state = "Open" ]
          [] c1.state = "Open" -> c1

\* faulty variant of reset_circuit_breaker: last_failure_time is left as it is
reset_circuit_breaker_keeps_time(c) ==
    [ c EXCEPT !.state = "Closed",
               !.failure_count = 0,
               !.success_count = 0 ]

\* HttpExternalService::reset_circuit_breaker(&self)
reset_circuit_breaker(c) ==
    [ c EXCEPT !.state = "Closed",
               !.failure_count = 0,
               !.success_count = 0,
               !.last_failure_time = None ]

(***************************************************************************)
(* History of the breaker, kept next to every operation applied to it      *)
(***************************************************************************)
\* consec after operation op took the breaker from c to c1
ConsecAfter(op, c, c1, n) ==
    IF c1.state /= "Closed" THEN n + (IF op = "record_failure" /\ c.state = "Closed" THEN 1 ELSE 0)
    ELSE IF c.state /= "Closed" THEN 0
    ELSE IF op = "record_success" \/ op = "reset" THEN 0
    ELSE IF op = "record_failure" THEN n + 1
    ELSE n

\* hsucc after operation op took the breaker from c to c1
HsuccAfter(op, c, c1, n) ==
    IF c.state /= "HalfOpen"
    THEN (IF c1.state = "HalfOpen" THEN 0 ELSE n)
    ELSE IF op = "record_success" THEN n + 1 ELSE n

\* no operation applied yet: no failure recorded
RecNew == [ ever_failed |-> FALSE, failed_since_reset |-> FALSE, from_state |-> "Closed" ]

\* rec after operation op was applied to the breaker c
RecAfter(op, c, r) ==
    [ ever_failed        |-> r.ever_failed \/ op = "record_failure",
      failed_since_reset |-> IF op = "reset" THEN FALSE
                             ELSE r.failed_since_reset \/ op = "record_failure",
      from_state         |-> c.state ]

(***************************************************************************)
(* u64 arithmetic of the backoff delay.                                    *)
(* A u64 value is kept as [m, e], standing for m * 2^e, with m odd, or     *)
(* m = 0 and e = 0 for zero: the delays are a base times a power of two,   *)
(* and 2^64 itself is beyond the model checker's integers.                 *)
(***************************************************************************)
U64Bits == 64
U64Zero == [ m |-> 0, e |-> 0 ]
U64(m, e) == IF m = 0 THEN U64Zero ELSE [ m |-> m, e |-> e ]

RECURSIVE BitLen(_)
\* number of significant bits of a natural number
BitLen(n) == IF n = 0 THEN 0 ELSE 1 + BitLen(n \div 2)

RECURSIVE Pow2(_)
Pow2(n) == IF n = 0 THEN 1 ELSE 2 * Pow2(n - 1)

\* 2_u64.pow(attempt): the value modulo 2^64, and whether it overflowed
pow2_u64(attempt) ==
    IF attempt < U64Bits
    THEN [ ovf |-> FALSE, val |-> U64(1, attempt) ]
    ELSE [ ovf |-> TRUE,  val |-> U64Zero ]

\* x * y on u64: the product modulo 2^64, and whether it overflowed
mul_u64(x, y) ==
    LET m == x.m * y.m
        e == x.e + y.e
    IN  IF m = 0 THEN [ ovf |-> FALSE, val |-> U64Zero ]
        ELSE IF BitLen(m) + e <= U64Bits THEN [ ovf |-> FALSE, val |-> U64(m, e) ]
        ELSE IF e >= U64Bits THEN [ ovf |-> TRUE, val |-> U64Zero ]
        ELSE [ ovf |-> TRUE, val |-> U64(m % Pow2(U64Bits - e), e) ]

\* self.config.retry_delay_ms * (2_u64.pow(attempt))
retry_delay(cfg, attempt) ==
    LET p == pow2_u64(attempt)
        q == mul_u64(cfg.retry_delay_ms, p.val)
    IN  [ ovf |-> p.ovf \/ q.ovf, val |-> q.val ]

(***************************************************************************)
(* HttpClientConfig and the outcomes of the operation                      *)
(***************************************************************************)
\* retry_delay_ms values of the model: 0, 1, 1000 (the default) and 2^62
RetryDelayChoices == { U64(0, 0), U64(1, 0), U64(125, 3), U64(1, 62) }

\* errors the operation closure produces (ExternalServiceError)
OpErrors == { "ServiceUnavailable", "InvalidResponse" }
OpOutcomes == { "Ok" } \cup OpErrors

\* HttpClientConfig::default()
DefaultMaxRetries == 3
DefaultRetryDelayMs == U64(125, 3)
DefaultThreshold == 5
DefaultBreakerTimeoutSeconds == 60

\* default_graceful_shutdown_timeout()
DefaultShutdownTimeoutSeconds == 30

\* a caller that is not inside execute_with_retry. Locals of the function:
\* pc (position), attempt, last_error, result (the value returned). History
\* of the call: gate (what can_execute() returned), invocations (operation()
\* calls made), recorded (record_failure() calls made), outcome (what the
\* latest operation() produced), first_error (the first error produced),
\* sleeps (the durations slept, in order).
CallIdle ==
    [ pc          |-> "idle",
      attempt     |-> 0,
      last_error  |-> None,
      result      |-> "none",
      gate        |-> "none",
      invocations |-> 0,
      recorded    |-> 0,
      outcome     |-> "none",
      first_error |-> "none",
      sleeps      |-> << >> ]

\* no request made yet
RequestIdle ==
    [ pc |-> "idle", verb |-> "GET", health |-> FALSE, resp |-> None,
      class |-> "none", result |-> "none", state_at_return |-> "none", hc |-> None ]

(***************************************************************************)
(* ShutdownCoordinator (src/src/shutdown.rs) with the mock components of   *)
(* src/src/shutdown/tests.rs                                               *)
(***************************************************************************)
\* ShutdownCoordinator::new(): no components; no shutdown_all() call made yet
CoordinatorNew == << >>
ShutdownAllIdle ==
    [ pc |-> "idle", n |-> 0, pos |-> 1, calls |-> << >>, outcomes |-> << >>,
      result |-> "none", runs |-> 0 ]

\* MockShutdownComponent::new(name, shutdown_called, should_fail, delay)
MockShutdownComponent(should_fail) ==
    [ should_fail |-> should_fail, shutdown_called |-> FALSE ]

\* MockShutdownComponent::shutdown(&mut self): the component after the call
\* and the value returned
mock_shutdown(c) ==
    [ component |-> [ c EXCEPT !.shutdown_called = TRUE ],
      ret       |-> IF c.should_fail THEN "ResourceCleanup" ELSE "Ok" ]

\* ShutdownCoordinator::register: self.components.push(Box::new(component))
register(cs, component) == Append(cs, component)

\* faulty variant of shutdown_order: registration order (.rev() left out)
shutdown_order_forward(n) == [ k \in 1..n |-> k ]

\* the indices (1-based) that shutdown_all visits, in the order it visits
\* them: self.components.iter_mut().enumerate().rev() over n components
shutdown_order(n) == [ k \in 1..n |-> n - k + 1 ]

\* faulty variant of after_component: a component's error ends shutdown_all
\* and is returned (component.shutdown().await? for the match)
after_component_propagates(s, ret) ==
    IF ret = "Ok"
    THEN [ s EXCEPT !.pc = "loop", !.pos = @ + 1, !.outcomes = Append(@, ret) ]
    ELSE [ s EXCEPT !.pc = "returned", !.result = ret, !.outcomes = Append(@, ret) ]

\* the match on component.shutdown().await (lines 120-128): the loop goes on
\* to the next component whatever the value returned
after_component(s, ret) ==
    [ s EXCEPT !.pc = "loop", !.pos = @ + 1, !.outcomes = Append(@, ret) ]

\* coordinator.register(component), between shutdown_all() calls
Register ==
    /\ sa.pc \in { "idle", "returned" }
    /\ Len(components) < MaxComponents
    /\ \E f \in BOOLEAN : components' = register(components, MockShutdownComponent(f))
    /\ UNCHANGED << sa, orch, fn, main, active, cbvars, clvars >>

\* shutdown_all() is called (line 113)
ShutdownAllCall ==
    /\ sa.pc \in { "idle", "returned" }
    /\ sa.runs < MaxShutdownRuns
    /\ sa' = [ ShutdownAllIdle EXCEPT !.pc = "loop", !.n = Len(components),
                                      !.runs = sa.runs + 1 ]
    /\ UNCHANGED << components, orch, fn, main, active, cbvars, clvars >>

\* the loop takes the next component and calls its shutdown() (lines 116-120)
InvokeComponent ==
    /\ sa.pc = "loop"
    /\ sa.pos <= sa.n
    /\ sa' = [ sa EXCEPT !.pc = "await",
                         !.calls = Append(@, shutdown_order(sa.n)[sa.pos]) ]
    /\ UNCHANGED << components, orch, fn, main, active, cbvars, clvars >>

\* component.shutdown().await returns (lines 120-128)
ComponentReturns ==
    /\ sa.pc = "await"
    /\ LET k == sa.calls[Len(sa.calls)]
           r == mock_shutdown(components[k])
       IN  /\ components' = [ components EXCEPT ![k] = r.component ]
           /\ sa' = after_component(sa, r.ret)
    /\ UNCHANGED << orch, fn, main, active, cbvars, clvars >>

\* the loop is over: Ok(()) (lines 131-132)
ShutdownAllReturns ==
    /\ sa.pc = "loop"
    /\ sa.pos > sa.n
    /\ sa' = [ sa EXCEPT !.pc = "returned", !.result = "Ok" ]
    /\ UNCHANGED << components, orch, fn, main, active, cbvars, clvars >>

(***************************************************************************)
(* GracefulShutdown::execute_shutdown around a shutdown_fn                 *)
(***************************************************************************)
\* results a shutdown_fn can produce: Ok(()) or Err of a ShutdownError
FnResults == { "Ok", "Timeout", "Database", "ResourceCleanup" }

\* GracefulShutdown::new(shutdown_timeout), execute_shutdown not yet called
GracefulShutdownNew(shutdown_timeout) ==
    [ shutdown_timeout |-> shutdown_timeout, pc |-> "idle", elapsed |-> 0,
      result |-> "none", overdue |-> FALSE ]

\* a shutdown_fn whose future needs `work` seconds and then yields `result`
ShutdownFn(work, result) ==
    [ remaining |-> work, result |-> result, state |-> "new" ]

\* faulty variant of execute_shutdown_poll: an error of shutdown_fn is
\* logged and Ok(()) returned
execute_shutdown_poll_swallow(o, f) ==
    IF f.remaining = 0
    THEN [ orch |-> [ o EXCEPT !.pc = "returned", !.result = "Ok" ],
           fn   |-> [ f EXCEPT !.state = "completed" ] ]
    ELSE IF o.elapsed >= o.shutdown_timeout
    THEN [ orch |-> [ o EXCEPT !.pc = "returned", !.result = "Timeout" ],
           fn   |-> [ f EXCEPT !.state = "dropped" ] ]
    ELSE [ orch |-> o, fn |-> f ]

\* faulty variant of execute_shutdown_poll: an elapsed deadline is logged
\* and Ok(()) returned
execute_shutdown_poll_deadline_ok(o, f) ==
    IF f.remaining = 0
    THEN [ orch |-> [ o EXCEPT !.pc = "returned", !.result = f.result ],
           fn   |-> [ f EXCEPT !.state = "completed" ] ]
    ELSE IF o.elapsed >= o.shutdown_timeout
    THEN [ orch |-> [ o EXCEPT !.pc = "returned", !.result = "Ok" ],
           fn   |-> [ f EXCEPT !.state = "dropped" ] ]
    ELSE [ orch |-> o, fn |-> f ]

\* one poll of tokio::time::timeout(self.shutdown_timeout, shutdown_fn()) and
\* the match on it (lines 57-70): the inner future is polled first and its
\* value returned if it is ready; otherwise, if the deadline has passed, the
\* inner future is dropped and Err(Timeout) is returned
execute_shutdown_poll(o, f) ==
    IF f.remaining = 0
    THEN [ orch |-> [ o EXCEPT !.pc = "returned", !.result = f.result ],
           fn   |-> [ f EXCEPT !.state = "completed" ] ]
    ELSE IF o.elapsed >= o.shutdown_timeout
    THEN [ orch |-> [ o EXCEPT !.pc = "returned", !.result = "Timeout" ],
           fn   |-> [ f EXCEPT !.state = "dropped" ] ]
    ELSE [ orch |-> o, fn |-> f ]

\* has the deadline elapsed with shutdown_fn still not complete
Overdue(o, f) == o.elapsed >= o.shutdown_timeout /\ f.remaining > 0

\* execute_shutdown(shutdown_fn) is called: the future is created (line 57)
ExecuteShutdown ==
    /\ orch.pc = "idle"
    /\ fn' = [ fn EXCEPT !.state = "pending" ]
    /\ orch' = [ orch EXCEPT !.pc = "pending", !.overdue = Overdue(orch, fn) ]
    /\ UNCHANGED << components, sa, main, active, cbvars, clvars >>

\* a second passes while execute_shutdown awaits: shutdown_fn's work advances
OrchTick ==
    /\ orch.pc = "pending"
    /\ orch.elapsed < MaxElapsed
    /\ LET f1 == [ fn EXCEPT !.remaining = IF @ > 0 THEN @ - 1 ELSE 0 ]
           o1 == [ orch EXCEPT !.elapsed = @ + 1 ]
       IN  /\ fn' = f1
           /\ orch' = [ o1 EXCEPT !.overdue = @ \/ Overdue(o1, f1) ]
    /\ UNCHANGED << components, sa, main, active, cbvars, clvars >>

\* the task is polled after shutdown_fn became ready or the timer fired
OrchPoll ==
    /\ orch.pc = "pending"
    /\ fn.remaining = 0 \/ orch.elapsed >= orch.shutdown_timeout
    /\ LET r == execute_shutdown_poll(orch, fn)
       IN  orch' = r.orch /\ fn' = r.fn
    /\ UNCHANGED << components, sa, main, active, cbvars, clvars >>

(***************************************************************************)
(* The shutdown components of src/src/shutdown.rs. Durations are counted   *)
(* in ticks of one clock; how many ticks the resource operation of a call  *)
(* needs (pool close, drain, flush, cleanup) is an input of the call.      *)
(***************************************************************************)
\* the components that own a handle in an Option field
HandleKinds == { "HttpServer", "Database", "ExternalService", "Tracing" }
ComponentKinds == HandleKinds \cup { "General" }

\* X::new(handle).with_timeout(timeout); GeneralResourceCleanup owns no handle
ShutdownComponentNew(kind, timeout) ==
    [ kind    |-> kind,
      handle  |-> kind \in HandleKinds,     \* TRUE: Some(handle), FALSE: None
      timeout |-> timeout,
      calls   |-> 0,                        \* history: shutdown() calls begun
      uses    |-> 0,                        \* history: times the resource was operated on
      rets    |-> << >> ]                   \* history: the values returned, in order

\* no component.shutdown() future exists
NoCall == [ state |-> "none", k |-> 0, work |-> 0, waited |-> 0 ]

\* faulty variant of shutdown_begin: the handle is borrowed (as_mut) instead
\* of taken
shutdown_begin_borrows(c, w) ==
    IF c.kind = "General" \/ c.handle
    THEN [ component |-> [ c EXCEPT !.calls = @ + 1, !.uses = @ + 1 ],
           call      |-> [ NoCall EXCEPT !.state = "working", !.work = w ] ]
    ELSE [ component |-> [ c EXCEPT !.calls = @ + 1 ],
           call      |-> [ NoCall EXCEPT !.state = "working" ] ]

\* shutdown(&mut self) up to its first await: `if let Some(x) = self.x.take()`
\* starts the resource operation, which needs w ticks; with the handle gone
\* the else branch returns Ok(()) at once. GeneralResourceCleanup starts
\* cleanup_all_resources on every call.
shutdown_begin(c, w) ==
    IF c.kind = "General"
    THEN [ component |-> [ c EXCEPT !.calls = @ + 1, !.uses = @ + 1 ],
           call      |-> [ NoCall EXCEPT !.state = "working", !.work = w ] ]
    ELSE IF c.handle
    THEN [ component |-> [ c EXCEPT !.handle = FALSE, !.calls = @ + 1, !.uses = @ + 1 ],
           call      |-> [ NoCall EXCEPT !.state = "working", !.work = w ] ]
    ELSE [ component |-> [ c EXCEPT !.calls = @ + 1 ],
           call      |-> [ NoCall EXCEPT !.state = "working" ] ]

\* faulty variant of timeout_result: the tracing flush timeout is an error
timeout_result_tracing_err(kind) ==
    CASE kind = "Database"        -> "Database(Close timeout)"
      [] kind = "ExternalService" -> "ExternalService(Cleanup timeout)"
      [] kind = "Tracing"         -> "Timeout"
      [] kind = "General"         -> "ResourceCleanup(Cleanup timeout)"

\* faulty variant of timeout_result: the close timeout is logged and Ok(())
\* returned
timeout_result_database_ok(kind) ==
    CASE kind = "Database"        -> "Ok"
      [] kind = "ExternalService" -> "ExternalService(Cleanup timeout)"
      [] kind = "Tracing"         -> "Ok"
      [] kind = "General"         -> "ResourceCleanup(Cleanup timeout)"

\* the Err(_) arm of the match on tokio::time::timeout(..) in each
\* component: what shutdown() returns when its timeout elapsed
timeout_result(kind) ==
    CASE kind = "Database"        -> "Database(Close timeout)"
      [] kind = "ExternalService" -> "ExternalService(Cleanup timeout)"
      [] kind = "Tracing"         -> "Ok"
      [] kind = "General"         -> "ResourceCleanup(Cleanup timeout)"

\* faulty variant of shutdown_poll: whoever awaits the future gives it one
\* second and then goes on without the component
shutdown_poll_cut_short(c, a) ==
    IF a.work = 0
    THEN [ ret |-> "Ok", timed_out |-> FALSE ]
    ELSE IF a.waited >= 1
    THEN [ ret |-> "Timeout", timed_out |-> TRUE ]
    ELSE [ ret |-> "Pending", timed_out |-> FALSE ]

\* one poll of the shutdown() future: the resource operation is polled first
\* and Ok(()) returned when it is complete; otherwise, when the component's
\* timeout has elapsed, the operation is dropped and the timeout arm taken.
\* HttpServerShutdown awaits its sleep without a timeout.
shutdown_poll(c, a) ==
    IF a.work = 0
    THEN [ ret |-> "Ok", timed_out |-> FALSE ]
    ELSE IF c.kind /= "HttpServer" /\ a.waited >= c.timeout
    THEN [ ret |-> timeout_result(c.kind), timed_out |-> TRUE ]
    ELSE [ ret |-> "Pending", timed_out |-> FALSE ]

\* a tick passes while the shutdown() future is pending
call_tick(a) ==
    IF a.state = "working"
    THEN [ a EXCEPT !.work = IF @ > 0 THEN @ - 1 ELSE 0, !.waited = @ + 1 ]
    ELSE a

\* the component after its shutdown() returned r
returned(c, r) == [ c EXCEPT !.rets = Append(@, r) ]

\* history: shutdown() calls begun on the components cs
RECURSIVE TotalCalls(_)
TotalCalls(cs) == IF cs = << >> THEN 0 ELSE Head(cs).calls + TotalCalls(Tail(cs))

\* shutdown() is called on component k (by a test or by any owner)
CallShutdown(k) ==
    /\ active.state = "none"
    /\ k \in 1..Len(components)
    /\ TotalCalls(components) < MaxShutdownCalls
    /\ \E w \in 0..MaxWork :
          LET b == shutdown_begin(components[k], w)
          IN  /\ components' = [ components EXCEPT ![k] = b.component ]
              /\ active' = [ b.call EXCEPT !.k = k ]
    /\ UNCHANGED << sa, orch, fn, main, cbvars, clvars >>

\* a tick passes while the call is pending
CompTick ==
    /\ active.state = "working"
    /\ active.waited < MaxElapsed
    /\ active' = call_tick(active)
    /\ UNCHANGED << components, sa, orch, fn, main, cbvars, clvars >>

\* the call returns
CompReturns ==
    /\ active.state = "working"
    /\ LET r == shutdown_poll(components[active.k], active)
       IN  /\ r.ret /= "Pending"
           /\ components' = [ components EXCEPT ![active.k] = returned(@, r) ]
    /\ active' = NoCall
    /\ UNCHANGED << sa, orch, fn, main, cbvars, clvars >>


(***************************************************************************)
(* main() (src/src/main.rs): the wiring of the coordinator, the select! on *)
(* the server and the shutdown signal, and execute_shutdown around         *)
(* shutdown_all(). A tick is a second here.                                *)
(***************************************************************************)
TracingFlushTimeout == 1   \* TracingShutdown::new(guard).with_timeout(Duration::from_millis(1000))

\* main at line 85: tracing_guard tells whether init_tracing returned a
\* guard, timeout is the component timeout (seconds) of the configuration
MainNew(tracing_guard, timeout) ==
    [ pc |-> "init", trigger |-> "none", result |-> "none",
      tracing_guard |-> tracing_guard, timeout |-> timeout ]

\* faulty variant of wire: the tracing component is registered first, and so
\* torn down last
wire_tracing_first(m) ==
    LET c0 == IF m.tracing_guard
              THEN register(CoordinatorNew, ShutdownComponentNew("Tracing", TracingFlushTimeout))
              ELSE CoordinatorNew
        c1 == register(c0, ShutdownComponentNew("HttpServer", m.timeout))
        c2 == register(c1, ShutdownComponentNew("ExternalService", m.timeout))
        c3 == register(c2, ShutdownComponentNew("Database", m.timeout))
    IN  register(c3, ShutdownComponentNew("General", m.timeout))

\* lines 86-113: the coordinator after main registered its components
wire(m) ==
    LET c1 == register(CoordinatorNew, ShutdownComponentNew("HttpServer", m.timeout))
        c2 == register(c1, ShutdownComponentNew("ExternalService", m.timeout))
        c3 == register(c2, ShutdownComponentNew("Database", m.timeout))
        c4 == register(c3, ShutdownComponentNew("General", m.timeout))
    IN  IF m.tracing_guard
        THEN register(c4, ShutdownComponentNew("Tracing", TracingFlushTimeout))
        ELSE c4

\* the future `async { shutdown_coordinator.shutdown_all().await }` seen as
\* a shutdown_fn: ready once shutdown_all() has returned
ShutdownAllFuture(s) ==
    [ remaining |-> IF s.pc = "returned" THEN 0 ELSE 1, result |-> s.result,
      state |-> "pending" ]

\* lines 86-115
Wire ==
    /\ main.pc = "init"
    /\ components' = wire(main)
    /\ main' = [ main EXCEPT !.pc = "running" ]
    /\ UNCHANGED << sa, orch, fn, active, cbvars, clvars >>

\* lines 125-133: wait_for_shutdown_signal() completes first (SIGINT or
\* SIGTERM, shutdown.rs lines 19-45); execute_shutdown creates and polls the
\* shutdown_all() future
Signal(s) ==
    /\ main.pc = "running"
    /\ main' = [ main EXCEPT !.pc = "shutting_down", !.trigger = s ]
    /\ sa' = [ ShutdownAllIdle EXCEPT !.pc = "loop", !.n = Len(components),
                                      !.runs = sa.runs + 1 ]
    /\ orch' = [ orch EXCEPT !.pc = "pending" ]
    /\ fn' = ShutdownAllFuture(sa')
    /\ UNCHANGED << components, active, cbvars, clvars >>

\* lines 119-123: the server future completes first, with Err(e):
\* `return Err(e.into())`
ServerError ==
    /\ main.pc = "running"
    /\ main' = [ main EXCEPT !.pc = "terminated", !.trigger = "server_error",
                             !.result = "Err(server)" ]
    /\ UNCHANGED << components, sa, orch, fn, active, cbvars, clvars >>

\* component.shutdown() is polled for the first time
MainBegin ==
    /\ main.pc = "shutting_down"
    /\ sa.pc = "await"
    /\ active.state = "none"
    /\ LET k == sa.calls[Len(sa.calls)]
       IN  \E w \in 0..MaxWork :
              LET b == shutdown_begin(components[k], w)
              IN  /\ components' = [ components EXCEPT ![k] = b.component ]
                  /\ active' = [ b.call EXCEPT !.k = k ]
    /\ UNCHANGED << sa, orch, fn, main, cbvars, clvars >>

\* a second passes while execute_shutdown is pending
MainTick ==
    /\ main.pc = "shutting_down"
    /\ orch.pc = "pending"
    /\ orch.elapsed < MaxElapsed
    /\ orch' = [ orch EXCEPT !.elapsed = @ + 1 ]
    /\ active' = call_tick(active)
    /\ UNCHANGED << components, sa, fn, main, cbvars, clvars >>

\* component.shutdown().await returns to shutdown_all (shutdown.rs lines 120-128)
MainComponentReturns ==
    /\ main.pc = "shutting_down"
    /\ sa.pc = "await"
    /\ active.state = "working"
    /\ LET r == shutdown_poll(components[active.k], active)
       IN  /\ r.ret /= "Pending"
           /\ components' = [ components EXCEPT ![active.k] = returned(@, r) ]
           /\ sa' = after_component(sa, r.ret)
    /\ active' = NoCall
    /\ UNCHANGED << orch, fn, main, cbvars, clvars >>

\* the timeout of execute_shutdown resolves (shutdown.rs lines 57-70):
\* shutdown_all() has returned, or it is pending in a component and the
\* deadline has passed, and then its future is dropped where it stands
MainPoll ==
    /\ main.pc = "shutting_down"
    /\ orch.pc = "pending"
    /\ \/ sa.pc = "returned"
       \/ /\ orch.elapsed >= orch.shutdown_timeout
          /\ sa.pc = "await"
          /\ active.state = "working"
          /\ shutdown_poll(components[active.k], active).ret = "Pending"
    /\ LET r == execute_shutdown_poll(orch, ShutdownAllFuture(sa))
           dropped == r.fn.state = "dropped"
       IN  /\ orch' = r.orch
           /\ fn' = r.fn
           /\ sa' = IF dropped THEN [ sa EXCEPT !.pc = "dropped" ] ELSE sa
           /\ active' = IF dropped THEN NoCall ELSE active
    /\ UNCHANGED << components, main, cbvars, clvars >>

\* lines 135-144: main returns what execute_shutdown returned
MainReturns ==
    /\ main.pc = "shutting_down"
    /\ orch.pc = "returned"
    /\ main' = [ main EXCEPT !.pc = "terminated", !.result = orch.result ]
    /\ UNCHANGED << components, sa, orch, fn, active, cbvars, clvars >>

(***************************************************************************)
(* The parts of the state a specification does not use stay as constructed *)
(***************************************************************************)
RestHistory ==
    /\ last_op = "new"
    /\ last_ret = TRUE
    /\ consec = 0
    /\ hsucc = 0
    /\ rec = RecNew

RestBreaker ==
    /\ cb = CircuitBreakerNew(DefaultThreshold, DefaultBreakerTimeoutSeconds)
    /\ now = 0
    /\ RestHistory

RestClient ==
    /\ config = [ max_retries |-> DefaultMaxRetries, retry_delay_ms |-> DefaultRetryDelayMs,
                  overflow_checks |-> TRUE ]
    /\ call = [ i \in Callers |-> CallIdle ]
    /\ req = RequestIdle
    /\ mutex = MutexNew

RestShutdown ==
    /\ components = CoordinatorNew
    /\ sa = ShutdownAllIdle
    /\ orch = GracefulShutdownNew(DefaultShutdownTimeoutSeconds)
    /\ fn = ShutdownFn(0, "Ok")
    /\ main = MainNew(FALSE, 1)
    /\ active = NoCall

(***************************************************************************)
(* HttpExternalService::execute_with_retry, one step per lock section or   *)
(* await. The breaker's history variables belong to SpecCB and stay put.   *)
(***************************************************************************)
\* lines 209-215: the call after can_execute() returned ret: on to the loop,
\* or back with Err(CircuitBreakerOpen)
after_gate(ret) ==
    IF ret
    THEN [ CallIdle EXCEPT !.pc = "attempt", !.gate = "true" ]
    ELSE [ CallIdle EXCEPT !.pc = "done", !.gate = "false",
                           !.result = "CircuitBreakerOpen" ]

\* lines 206-213: the breaker check at entry
Gate(i) ==
    /\ call[i].pc = "idle"
    /\ LET r == can_execute(cb, now)
       IN  /\ cb' = r.cb
           /\ call' = [ call EXCEPT ![i] = after_gate(r.ret) ]
    /\ UNCHANGED << now, config, mutex, req, hist, sdvars >>

\* lines 221-231: the call c after an attempt that returned Ok
after_success(c) ==
    [ c EXCEPT !.pc = "done", !.result = "Ok", !.outcome = "Ok",
               !.invocations = @ + 1 ]

\* lines 220-232: operation().await returned Ok
AttemptOk(i) ==
    /\ call[i].pc = "attempt"
    /\ cb' = record_success(cb)
    /\ call' = [ call EXCEPT ![i] = after_success(call[i]) ]
    /\ UNCHANGED << now, config, mutex, req, hist, sdvars >>

\* faulty variant of after_failure: last_error keeps the first error seen
after_failure_first_error(c, cfg, e) ==
    LET c1 == [ c EXCEPT !.last_error = IF @ = None THEN Some(e) ELSE @ ]
        d  == retry_delay(cfg, c.attempt)
    IN  IF c.attempt < cfg.max_retries
        THEN IF d.ovf /\ cfg.overflow_checks
             THEN [ c1 EXCEPT !.pc = "panicked" ]
             ELSE [ c1 EXCEPT !.pc = "sleep", !.sleeps = Append(@, d.val) ]
        ELSE [ c1 EXCEPT !.pc = "done",
                         !.result = IF c1.last_error /= None
                                    THEN c1.last_error[1]
                                    ELSE "RetryExhausted" ]

\* faulty variant of after_failure: the error of the attempt is not captured
after_failure_forgets(c, cfg, e) ==
    LET d == retry_delay(cfg, c.attempt)
    IN  IF c.attempt < cfg.max_retries
        THEN IF d.ovf /\ cfg.overflow_checks
             THEN [ c EXCEPT !.pc = "panicked" ]
             ELSE [ c EXCEPT !.pc = "sleep", !.sleeps = Append(@, d.val) ]
        ELSE [ c EXCEPT !.pc = "done",
                        !.result = IF c.last_error /= None
                                   THEN c.last_error[1]
                                   ELSE "RetryExhausted" ]

\* the locals after a failed attempt (lines 243-253): last_error, and then
\* either the backoff sleep, a panic of the delay arithmetic, or the end of
\* the loop with the value returned at line 258
after_failure(c, cfg, e) ==
    LET c1 == [ c EXCEPT !.last_error = Some(e) ]
        d  == retry_delay(cfg, c.attempt)
    IN  IF c.attempt < cfg.max_retries
        THEN IF d.ovf /\ cfg.overflow_checks
             THEN [ c1 EXCEPT !.pc = "panicked" ]
             ELSE [ c1 EXCEPT !.pc = "sleep", !.sleeps = Append(@, d.val) ]
        ELSE [ c1 EXCEPT !.pc = "done",
                         !.result = IF c1.last_error /= None
                                    THEN c1.last_error[1]
                                    ELSE "RetryExhausted" ]

\* lines 233-253: operation().await returned Err(e)
AttemptErr(i, e) ==
    /\ call[i].pc = "attempt"
    /\ cb.failure_count < MaxFailureCount
    /\ cb' = record_failure(cb, now)
    /\ call' = [ call EXCEPT ![i] =
           after_failure([ call[i] EXCEPT !.outcome = e,
                                          !.first_error = IF @ = "none" THEN e ELSE @,
                                          !.invocations = @ + 1,
                                          !.recorded = @ + 1 ],
                         config, e) ]
    /\ UNCHANGED << now, config, mutex, req, hist, sdvars >>

\* line 251: sleep(delay).await returned; the loop takes the next attempt
SleepDone(i) ==
    /\ call[i].pc = "sleep"
    /\ call' = [ call EXCEPT ![i].pc = "attempt", ![i].attempt = @ + 1 ]
    /\ UNCHANGED << cbvars, config, mutex, req, sdvars >>

\* the caller is back from execute_with_retry and may call it again
Return(i) ==
    /\ call[i].pc \in { "done", "panicked" }
    /\ call' = [ call EXCEPT ![i] = CallIdle ]
    /\ UNCHANGED << cbvars, config, mutex, req, sdvars >>

\* the clock advances by one second while the callers run
ClientTick ==
    /\ now < MaxTime
    /\ now' = now + 1
    /\ UNCHANGED << cb, hist, clvars, sdvars >>

\* HttpExternalService::with_config: a client and its breaker
InitClient ==
    /\ \E k \in 0..MaxThreshold, t \in 1..MaxOpenTimeout :
          cb = CircuitBreakerNew(k, t)
    /\ \E r \in 0..MaxRetries, d \in RetryDelayChoices, oc \in BOOLEAN :
          config = [ max_retries |-> r, retry_delay_ms |-> d, overflow_checks |-> oc ]
    /\ now = 0
    /\ RestHistory
    /\ call = [ i \in Callers |-> CallIdle ]
    /\ req = RequestIdle
    /\ mutex = MutexNew
    /\ RestShutdown

\* one task calling execute_with_retry again and again
NextClient ==
    \/ Gate("c1")
    \/ AttemptOk("c1")
    \/ \E e \in OpErrors : AttemptErr("c1", e)
    \/ SleepDone("c1")
    \/ Return("c1")
    \/ ClientTick

SpecClient == InitClient /\ [][NextClient]_vars

(***************************************************************************)
(* Several tasks on one client. Each lock section of the breaker takes two *)
(* steps: lock() returns, and the section runs to the drop of its guard.   *)
(* tokio may switch tasks at every await, and threads between any two      *)
(* steps.                                                                  *)
(***************************************************************************)
\* faulty variant of can_lock: lock() returns whoever holds the guard
can_lock_always(m) == TRUE

\* Mutex::lock() returns to a task once no task holds the guard
can_lock(m) == m.holders = { }

\* lock() returned to task a, which enters its section op and finds breaker c
lock(m, a, op, c) ==
    [ m EXCEPT !.holders = @ \cup { a }, !.section[a] = op, !.seen[a] = Some(c) ]

\* history: the count of admitted calls, after a section that found the
\* breaker as c and leaves it as b, passed telling whether the section was a
\* can_execute() that returned true
admitted_after(n, c, b, passed) ==
    IF b.state /= "HalfOpen"
    THEN 0
    ELSE (IF c.state = "HalfOpen" THEN n ELSE 0) + (IF passed THEN 1 ELSE 0)

\* the guard of task a is dropped at the end of its section
unlock(m, a, c, b, passed) ==
    [ m EXCEPT !.holders = @ \ { a }, !.section[a] = "none", !.seen[a] = None,
               !.admitted = admitted_after(@, c, b, passed) ]

\* line 208: lock() returns to a caller entering execute_with_retry
LockCanExecute(i) ==
    /\ call[i].pc = "idle"
    /\ mutex.section[i] = "none"
    /\ can_lock(mutex)
    /\ mutex' = lock(mutex, i, "can_execute", cb)
    /\ UNCHANGED << cbvars, config, call, req, sdvars >>

\* lines 209-213: can_execute() under the guard, then the guard is dropped
CanExecuteSection(i) ==
    /\ mutex.section[i] = "can_execute"
    /\ LET r == can_execute(cb, now)
       IN  /\ cb' = r.cb
           /\ call' = [ call EXCEPT ![i] = after_gate(r.ret) ]
           /\ mutex' = unlock(mutex, i, cb, r.cb, r.ret)
    /\ UNCHANGED << now, config, req, hist, sdvars >>

\* lines 220-227: operation().await returned Ok and lock() returns
LockRecordSuccess(i) ==
    /\ call[i].pc = "attempt"
    /\ mutex.section[i] = "none"
    /\ can_lock(mutex)
    /\ mutex' = lock(mutex, i, "record_success", cb)
    /\ UNCHANGED << cbvars, config, call, req, sdvars >>

\* lines 228-232: record_success() under the guard, then return Ok
RecordSuccessSection(i) ==
    /\ mutex.section[i] = "record_success"
    /\ cb' = record_success(cb)
    /\ call' = [ call EXCEPT ![i] = after_success(call[i]) ]
    /\ mutex' = unlock(mutex, i, cb, record_success(cb), FALSE)
    /\ UNCHANGED << now, config, req, hist, sdvars >>

\* lines 233-239: operation().await returned Err and lock() returns
LockRecordFailure(i) ==
    /\ call[i].pc = "attempt"
    /\ mutex.section[i] = "none"
    /\ cb.failure_count < MaxFailureCount
    /\ can_lock(mutex)
    /\ mutex' = lock(mutex, i, "record_failure", cb)
    /\ UNCHANGED << cbvars, config, call, req, sdvars >>

\* lines 240-253: record_failure() under the guard, then the rest of the arm
RecordFailureSection(i, e) ==
    /\ mutex.section[i] = "record_failure"
    /\ cb' = record_failure(cb, now)
    /\ call' = [ call EXCEPT ![i] =
           after_failure([ call[i] EXCEPT !.outcome = e,
                                          !.first_error = IF @ = "none" THEN e ELSE @,
                                          !.invocations = @ + 1,
                                          !.recorded = @ + 1 ],
                         config, e) ]
    /\ mutex' = unlock(mutex, i, cb, record_failure(cb, now), FALSE)
    /\ UNCHANGED << now, config, req, hist, sdvars >>

\* lines 447 and 458: lock() returns to the task calling
\* circuit_breaker_status() or reset_circuit_breaker()
LockAdmin(op) ==
    /\ mutex.section["admin"] = "none"
    /\ can_lock(mutex)
    /\ mutex' = lock(mutex, "admin", op, cb)
    /\ UNCHANGED << cbvars, config, call, req, sdvars >>

\* lines 448-453: the fields are copied under the guard
StatusSection ==
    /\ mutex.section["admin"] = "status"
    /\ mutex' = unlock(mutex, "admin", cb, cb, FALSE)
    /\ UNCHANGED << cbvars, config, call, req, sdvars >>

\* lines 459-463: the breaker is reset under the guard
ResetSection ==
    /\ mutex.section["admin"] = "reset"
    /\ cb' = reset_circuit_breaker(cb)
    /\ mutex' = unlock(mutex, "admin", cb, reset_circuit_breaker(cb), FALSE)
    /\ UNCHANGED << now, hist, config, call, req, sdvars >>

\* one client shared by the callers and the task that watches the breaker
InitConc ==
    /\ \E k \in 1..MaxThreshold, t \in 1..MaxOpenTimeout :
          cb = CircuitBreakerNew(k, t)
    /\ \E r \in 0..1 :
          config = [ max_retries |-> r, retry_delay_ms |-> DefaultRetryDelayMs,
                     overflow_checks |-> FALSE ]
    /\ now = 0
    /\ RestHistory
    /\ call = [ i \in Callers |-> CallIdle ]
    /\ req = RequestIdle
    /\ mutex = MutexNew
    /\ RestShutdown

\* the steps of one caller
CallerStep(i) ==
    \/ LockCanExecute(i)
    \/ CanExecuteSection(i)
    \/ LockRecordSuccess(i)
    \/ RecordSuccessSection(i)
    \/ LockRecordFailure(i)
    \/ \E e \in OpErrors : RecordFailureSection(i, e)
    \/ SleepDone(i)
    \/ Return(i)

NextConc ==
    \/ \E i \in Callers : CallerStep(i)
    \/ \E op \in { "status", "reset" } : LockAdmin(op)
    \/ StatusSection
    \/ ResetSection
    \/ ClientTick

SpecConc == InitConc /\ [][NextConc]_vars

(***************************************************************************)
(* The HTTP operations of HttpExternalService: what one attempt makes of   *)
(* the outcome of send() and of the response, verb by verb                 *)
(***************************************************************************)
Verbs == { "GET", "POST", "PUT", "DELETE", "CUSTOM" }
StatusCodes == { 200, 299, 404, 429, 500, 599 }

\* what send().await gives: a reqwest::Error, with what is_timeout() and
\* is_connect() say of it, or a response, with its status and whether its
\* body parses as JSON
Responses ==
    { [ error |-> TRUE, is_timeout |-> t, is_connect |-> c, status |-> 0, json |-> FALSE ] :
         t \in BOOLEAN, c \in BOOLEAN }
    \cup
    { [ error |-> FALSE, is_timeout |-> FALSE, is_connect |-> FALSE, status |-> s, json |-> j ] :
         s \in StatusCodes, j \in BOOLEAN }

\* StatusCode::is_success and StatusCode::is_server_error
is_success(status) == status >= 200 /\ status < 300
is_server_error(status) == status >= 500 /\ status < 600

\* ExternalServiceError::InvalidResponse(format!("HTTP {}", status))
InvalidResponse(status) == "InvalidResponse(HTTP " \o ToString(status) \o ")"

\* the closure of get() (lines 275-304)
get_outcome(r) ==
    IF r.error
    THEN IF r.is_timeout THEN "Timeout"
         ELSE IF r.is_connect THEN "ServiceUnavailable"
         ELSE "Http"
    ELSE IF is_success(r.status)
    THEN IF r.json THEN "Ok" ELSE "InvalidResponse(json)"
    ELSE IF is_server_error(r.status) THEN "ServiceUnavailable"
    ELSE IF r.status = 429 THEN "RateLimitExceeded"
    ELSE InvalidResponse(r.status)

\* faulty variant of post_outcome: a 429 is not told from the other statuses
post_outcome_no_429(r) ==
    IF r.error
    THEN IF r.is_timeout THEN "Timeout"
         ELSE IF r.is_connect THEN "ServiceUnavailable"
         ELSE "Http"
    ELSE IF is_success(r.status)
    THEN IF r.json THEN "Ok" ELSE "InvalidResponse(json)"
    ELSE IF is_server_error(r.status) THEN "ServiceUnavailable"
    ELSE InvalidResponse(r.status)

\* the closure of post() (lines 320-350)
post_outcome(r) ==
    IF r.error
    THEN IF r.is_timeout THEN "Timeout"
         ELSE IF r.is_connect THEN "ServiceUnavailable"
         ELSE "Http"
    ELSE IF is_success(r.status)
    THEN IF r.json THEN "Ok" ELSE "InvalidResponse(json)"
    ELSE IF is_server_error(r.status) THEN "ServiceUnavailable"
    ELSE IF r.status = 429 THEN "RateLimitExceeded"
    ELSE InvalidResponse(r.status)

\* the closure of put() (lines 366-396)
put_outcome(r) ==
    IF r.error
    THEN IF r.is_timeout THEN "Timeout"
         ELSE IF r.is_connect THEN "ServiceUnavailable"
         ELSE "Http"
    ELSE IF is_success(r.status)
    THEN IF r.json THEN "Ok" ELSE "InvalidResponse(json)"
    ELSE IF is_server_error(r.status) THEN "ServiceUnavailable"
    ELSE IF r.status = 429 THEN "RateLimitExceeded"
    ELSE InvalidResponse(r.status)

\* the closure of delete() (lines 411-438): the body of a 2xx is not read
delete_outcome(r) ==
    IF r.error
    THEN IF r.is_timeout THEN "Timeout"
         ELSE IF r.is_connect THEN "ServiceUnavailable"
         ELSE "Http"
    ELSE IF is_success(r.status) THEN "Ok"
    ELSE IF is_server_error(r.status) THEN "ServiceUnavailable"
    ELSE IF r.status = 429 THEN "RateLimitExceeded"
    ELSE InvalidResponse(r.status)

\* the closure of custom_request() (lines 486-524)
custom_request_outcome(r) ==
    IF r.error
    THEN IF r.is_timeout THEN "Timeout"
         ELSE IF r.is_connect THEN "ServiceUnavailable"
         ELSE "Http"
    ELSE IF is_success(r.status)
    THEN IF r.json THEN "Ok" ELSE "InvalidResponse(json)"
    ELSE IF is_server_error(r.status) THEN "ServiceUnavailable"
    ELSE IF r.status = 429 THEN "RateLimitExceeded"
    ELSE InvalidResponse(r.status)

\* the operation that execute_with_retry runs for the verb
operation(verb, r) ==
    CASE verb = "GET"    -> get_outcome(r)
      [] verb = "POST"   -> post_outcome(r)
      [] verb = "PUT"    -> put_outcome(r)
      [] verb = "DELETE" -> delete_outcome(r)
      [] verb = "CUSTOM" -> custom_request_outcome(r)

\* faulty variant of health_check: the error of the GET is returned
health_check_propagates(get_result, c) ==
    IF get_result = "Ok"
    THEN [ ret |-> "Ok", is_healthy |-> TRUE, circuit_breaker_state |-> c.state,
           error_message |-> None ]
    ELSE [ ret |-> get_result, is_healthy |-> FALSE, circuit_breaker_state |-> c.state,
           error_message |-> Some(get_result) ]

\* health_check (lines 529-552) once self.get(url).await gave get_result,
\* with the breaker c that circuit_breaker_status() finds
health_check(get_result, c) ==
    IF get_result = "Ok"
    THEN [ ret |-> "Ok", is_healthy |-> TRUE, circuit_breaker_state |-> c.state,
           error_message |-> None ]
    ELSE [ ret |-> "Ok", is_healthy |-> FALSE, circuit_breaker_state |-> c.state,
           error_message |-> Some(get_result) ]

\* a task calls get/post/put/delete/custom_request on the client
Request(v) ==
    /\ req.pc \in { "idle", "returned" }
    /\ call["c1"].pc = "idle"
    /\ req' = [ RequestIdle EXCEPT !.pc = "called", !.verb = v ]
    /\ UNCHANGED << cbvars, config, mutex, call, sdvars >>

\* a task calls health_check(url): self.get(url) (line 532)
HealthCheck ==
    /\ req.pc \in { "idle", "returned" }
    /\ call["c1"].pc = "idle"
    /\ req' = [ RequestIdle EXCEPT !.pc = "called", !.verb = "GET", !.health = TRUE ]
    /\ UNCHANGED << cbvars, config, mutex, call, sdvars >>

\* execute_with_retry checks the breaker (lines 206-213)
RequestGate ==
    /\ req.pc = "called"
    /\ Gate("c1")

\* one attempt: operation().await with response r, and lines 220-253
Send(r) ==
    /\ req.pc = "called"
    /\ call["c1"].pc = "attempt"
    /\ LET o == operation(req.verb, r)
       IN  /\ req' = [ req EXCEPT !.resp = Some(r), !.class = o ]
           /\ IF o = "Ok"
              THEN /\ cb' = record_success(cb)
                   /\ call' = [ call EXCEPT !["c1"].pc = "done",
                                            !["c1"].result = "Ok",
                                            !["c1"].outcome = "Ok",
                                            !["c1"].invocations = @ + 1 ]
              ELSE /\ cb.failure_count < MaxFailureCount
                   /\ cb' = record_failure(cb, now)
                   /\ call' = [ call EXCEPT !["c1"] =
                         after_failure([ call["c1"] EXCEPT
                                            !.outcome = o,
                                            !.first_error = IF @ = "none" THEN o ELSE @,
                                            !.invocations = @ + 1,
                                            !.recorded = @ + 1 ],
                                       config, o) ]
    /\ UNCHANGED << now, config, mutex, hist, sdvars >>

\* execute_with_retry returns to the verb, and the verb to its caller
RequestReturns ==
    /\ req.pc = "called"
    /\ call["c1"].pc = "done"
    /\ req' = [ req EXCEPT !.pc = IF req.health THEN "got" ELSE "returned",
                           !.result = call["c1"].result,
                           !.state_at_return = cb.state ]
    /\ call' = [ call EXCEPT !["c1"] = CallIdle ]
    /\ UNCHANGED << cbvars, config, mutex, sdvars >>

\* health_check builds its status (lines 533-551)
HealthStatus ==
    /\ req.pc = "got"
    /\ req' = [ req EXCEPT !.pc = "returned", !.hc = Some(health_check(req.result, cb)) ]
    /\ UNCHANGED << cbvars, config, mutex, call, sdvars >>

\* another task resets the breaker (reset_circuit_breaker, lines 457-464)
RequestReset ==
    /\ cb' = reset_circuit_breaker(cb)
    /\ UNCHANGED << now, hist, clvars, sdvars >>

(***************************************************************************)
(* SpecHttp: one task making requests and health checks through a client   *)
(***************************************************************************)
InitHttp ==
    /\ \E k \in 1..MaxThreshold : cb = CircuitBreakerNew(k, DefaultBreakerTimeoutSeconds)
    /\ \E r \in 0..1 :
          config = [ max_retries |-> r, retry_delay_ms |-> DefaultRetryDelayMs,
                     overflow_checks |-> TRUE ]
    /\ now = 0
    /\ RestHistory
    /\ call = [ i \in Callers |-> CallIdle ]
    /\ req = RequestIdle
    /\ mutex = MutexNew
    /\ RestShutdown

NextHttp ==
    \/ \E v \in Verbs : Request(v)
    \/ HealthCheck
    \/ RequestGate
    \/ \E r \in Responses : Send(r)
    \/ SleepDone("c1")
    \/ RequestReturns
    \/ HealthStatus
    \/ RequestReset

SpecHttp == InitHttp /\ [][NextHttp]_vars

(***************************************************************************)
(* SpecCB: the breaker driven directly (as the unit tests drive it)        *)
(***************************************************************************)
InitCB ==
    /\ \E k \in 0..MaxThreshold, t \in 1..MaxOpenTimeout :
          cb = CircuitBreakerNew(k, t)
    /\ now = 0
    /\ RestHistory
    /\ RestClient
    /\ RestShutdown

CanExecute ==
    LET r == can_execute(cb, now)
    IN  /\ cb' = r.cb
        /\ last_ret' = r.ret
        /\ last_op' = "can_execute"
        /\ consec' = ConsecAfter("can_execute", cb, r.cb, consec)
        /\ hsucc' = HsuccAfter("can_execute", cb, r.cb, hsucc)
        /\ rec' = RecAfter("can_execute", cb, rec)
        /\ UNCHANGED << now, clvars, sdvars >>

RecordSuccess ==
    LET c1 == record_success(cb)
    IN  /\ cb' = c1
        /\ last_op' = "record_success"
        /\ consec' = ConsecAfter("record_success", cb, c1, consec)
        /\ hsucc' = HsuccAfter("record_success", cb, c1, hsucc)
        /\ rec' = RecAfter("record_success", cb, rec)
        /\ UNCHANGED << now, last_ret, clvars, sdvars >>

RecordFailure ==
    /\ cb.failure_count < MaxFailureCount
    /\ LET c1 == record_failure(cb, now)
       IN  /\ cb' = c1
           /\ last_op' = "record_failure"
           /\ consec' = ConsecAfter("record_failure", cb, c1, consec)
           /\ hsucc' = HsuccAfter("record_failure", cb, c1, hsucc)
           /\ rec' = RecAfter("record_failure", cb, rec)
           /\ UNCHANGED << now, last_ret, clvars, sdvars >>

Reset ==
    LET c1 == reset_circuit_breaker(cb)
    IN  /\ cb' = c1
        /\ last_op' = "reset"
        /\ consec' = ConsecAfter("reset", cb, c1, consec)
        /\ hsucc' = HsuccAfter("reset", cb, c1, hsucc)
        /\ rec' = RecAfter("reset", cb, rec)
        /\ UNCHANGED << now, last_ret, clvars, sdvars >>

\* the clock advances by one second
Tick ==
    /\ now < MaxTime
    /\ now' = now + 1
    /\ last_op' = "tick"
    /\ UNCHANGED << cb, last_ret, consec, hsucc, rec, clvars, sdvars >>

NextCB ==
    \/ CanExecute
    \/ RecordSuccess
    \/ RecordFailure
    \/ Reset
    \/ Tick

SpecCB == InitCB /\ [][NextCB]_vars

(***************************************************************************)
(* SpecCoord: register() and shutdown_all() on one coordinator             *)
(***************************************************************************)
InitCoord ==
    /\ RestBreaker
    /\ RestClient
    /\ RestShutdown

NextCoord ==
    \/ Register
    \/ ShutdownAllCall
    \/ InvokeComponent
    \/ ComponentReturns
    \/ ShutdownAllReturns

SpecCoord == InitCoord /\ [][NextCoord]_vars

(***************************************************************************)
(* SpecOrch: execute_shutdown() around a shutdown_fn                       *)
(***************************************************************************)
InitOrch ==
    /\ RestBreaker
    /\ RestClient
    /\ components = CoordinatorNew
    /\ sa = ShutdownAllIdle
    /\ \E t \in 0..MaxShutdownTimeout : orch = GracefulShutdownNew(t)
    /\ \E w \in 0..MaxElapsed, r \in FnResults : fn = ShutdownFn(w, r)
    /\ main = MainNew(FALSE, 1)
    /\ active = NoCall

NextOrch ==
    \/ ExecuteShutdown
    \/ OrchTick
    \/ OrchPoll

SpecOrch == InitOrch /\ [][NextOrch]_vars

(***************************************************************************)
(* SpecMain: main() from the wiring of the coordinator to its return       *)
(***************************************************************************)
InitMain ==
    /\ RestBreaker
    /\ RestClient
    /\ components = CoordinatorNew
    /\ sa = ShutdownAllIdle
    /\ \E t \in 1..MaxShutdownTimeout : orch = GracefulShutdownNew(t)
    /\ fn = ShutdownFn(0, "Ok")
    /\ \E g \in BOOLEAN, t \in 1..MaxCompTimeout : main = MainNew(g, t)
    /\ active = NoCall

NextMain ==
    \/ Wire
    \/ \E s \in { "SIGINT", "SIGTERM" } : Signal(s)
    \/ ServerError
    \/ InvokeComponent
    \/ MainBegin
    \/ MainTick
    \/ MainComponentReturns
    \/ ShutdownAllReturns
    \/ MainPoll
    \/ MainReturns

SpecMain == InitMain /\ [][NextMain]_vars

(***************************************************************************)
(* SpecComp: shutdown() called on the components directly, any number of   *)
(* times                                                                   *)
(***************************************************************************)
\* one component of each kind, built with the same timeout
InitComp ==
    /\ RestBreaker
    /\ RestClient
    /\ \E t \in 0..MaxCompTimeout :
          components = << ShutdownComponentNew("HttpServer", t),
                          ShutdownComponentNew("ExternalService", t),
                          ShutdownComponentNew("Database", t),
                          ShutdownComponentNew("General", t),
                          ShutdownComponentNew("Tracing", t) >>
    /\ sa = ShutdownAllIdle
    /\ orch = GracefulShutdownNew(DefaultShutdownTimeoutSeconds)
    /\ fn = ShutdownFn(0, "Ok")
    /\ main = MainNew(FALSE, 1)
    /\ active = NoCall

NextComp ==
    \/ \E k \in 1..Len(components) : CallShutdown(k)
    \/ CompTick
    \/ CompReturns

SpecComp == InitComp /\ [][NextComp]_vars

(***************************************************************************)
(* Claims about the breaker, checked under SpecCB                          *)
(***************************************************************************)
\* C1: for failure_threshold k >= 1, a record_failure() applied while Closed
\* opens the breaker exactly when it is the k-th consecutive one (no
\* record_success() in between) and leaves it Closed before that; Open is
\* entered from Closed by no other operation; a record_success() while
\* Closed keeps it Closed with failure_count = 0 and restarts the count.
C1_TripsOnKthConsecutiveFailure ==
    [][ (cb.failure_threshold >= 1 /\ cb.state = "Closed") =>
           /\ last_op' = "record_failure" =>
                 /\ (cb'.state = "Open") <=> (consec' = cb.failure_threshold)
                 /\ (cb'.state = "Closed") <=> (consec' < cb.failure_threshold)
           /\ last_op' = "record_success" =>
                 /\ cb'.state = "Closed"
                 /\ cb'.failure_count = 0
                 /\ consec' = 0
           /\ cb'.state = "Open" => last_op' = "record_failure"
      ]_cbvars

\* C1 witness: with threshold 2, the second consecutive failure has just opened the breaker
C1_Witness ==
    /\ cb.failure_threshold = 2
    /\ cb.state = "Open"
    /\ last_op = "record_failure"
    /\ consec = 2

\* C2: a can_execute() made while Open returns false and leaves the breaker
\* Open when less than open_timeout has elapsed since last_failure_time, and
\* returns true, moving to HalfOpen with success_count = 0, at or after it.
C2_OpenTimeoutGate ==
    [][ (cb.state = "Open" /\ last_op' = "can_execute") =>
           /\ cb.last_failure_time /= None
           /\ IF now - cb.last_failure_time[1] < cb.timeout
              THEN last_ret' = FALSE /\ cb'.state = "Open"
              ELSE last_ret' = TRUE /\ cb'.state = "HalfOpen" /\ cb'.success_count = 0
      ]_cbvars

\* C2 witness: a query made exactly open_timeout after the last failure has
\* just been admitted and moved the breaker to HalfOpen
C2_Witness ==
    /\ last_op = "can_execute"
    /\ last_ret = TRUE
    /\ cb.state = "HalfOpen"
    /\ hsucc = 0
    /\ cb.last_failure_time /= None
    /\ now - cb.last_failure_time[1] = cb.timeout

\* C3: while HalfOpen, a record_success() closes the breaker (failure_count
\* = 0) exactly when it is the 3rd since HalfOpen was entered and leaves it
\* HalfOpen before that; a record_failure() while HalfOpen opens it at once.
C3_HalfOpenProbes ==
    [][ cb.state = "HalfOpen" =>
           /\ last_op' = "record_success" =>
                 /\ (cb'.state = "Closed" /\ cb'.failure_count = 0) <=> (hsucc' = HalfOpenMaxCalls)
                 /\ (cb'.state = "HalfOpen") <=> (hsucc' < HalfOpenMaxCalls)
           /\ last_op' = "record_failure" => cb'.state = "Open"
      ]_cbvars

\* C3 witness: the third success since entering HalfOpen has just closed the breaker
C3_Witness ==
    /\ cb.state = "Closed"
    /\ last_op = "record_success"
    /\ hsucc = HalfOpenMaxCalls
    /\ cb.failure_count = 0

\* C3 second case reached: a failure during probation, after two successes, reopened the breaker
C3_WitnessReopen ==
    /\ cb.state = "Open"
    /\ last_op = "record_failure"
    /\ hsucc = 2

(***************************************************************************)
(* Claims about execute_with_retry, checked under SpecClient               *)
(***************************************************************************)
\* the product retry_delay_ms * 2^a as a number, without the u64 width
DelayExpected(base, a) == IF base.m = 0 THEN U64Zero ELSE [ m |-> base.m, e |-> base.e + a ]

\* C4: when can_execute() returns false at the start of execute_with_retry,
\* the call returns CircuitBreakerOpen, has invoked the operation zero times,
\* has not slept, has recorded nothing, and has left the breaker as it was.
C4_RejectedCallIsFastFail ==
    [][ \A i \in Callers :
          (call[i].pc = "idle" /\ call'[i].gate = "false") =>
             /\ call'[i].pc = "done"
             /\ call'[i].result = "CircuitBreakerOpen"
             /\ call'[i].invocations = 0
             /\ call'[i].recorded = 0
             /\ call'[i].sleeps = << >>
             /\ cb' = cb
      ]_vars

\* C4 witness: a call has just been rejected by an Open breaker that holds a
\* non-zero success_count from an earlier probation
C4_Witness ==
    /\ call["c1"].pc = "done"
    /\ call["c1"].gate = "false"
    /\ call["c1"].result = "CircuitBreakerOpen"
    /\ cb.state = "Open"
    /\ cb.success_count > 0

\* C5: an admitted execute_with_retry call that has ended has invoked the
\* operation exactly min(j, max_retries + 1) times, j being the index of the
\* first successful attempt: it ended at its first success, within
\* max_retries + 1 invocations, or after exactly max_retries + 1 failures.
C5_InvocationCount ==
    \A i \in Callers :
       (call[i].gate = "true" /\ call[i].pc \in { "done", "panicked" }) =>
          IF call[i].outcome = "Ok"
          THEN call[i].result = "Ok" /\ call[i].invocations <= config.max_retries + 1
          ELSE call[i].invocations = config.max_retries + 1

\* C6: the sleeps of a call are the backoff delays retry_delay_ms * 2^a of
\* its failed attempts a = 0, 1, ... that were not the last: one per failed
\* attempt before the current one, each double the one before, none before
\* the first attempt, none after the final attempt or after a success.
C6_BackoffDelays ==
    \A i \in Callers :
       /\ call[i].pc /= "panicked"
       /\ \A a \in 1..Len(call[i].sleeps) :
             call[i].sleeps[a] = DelayExpected(config.retry_delay_ms, a - 1)
       /\ call[i].pc = "attempt" => Len(call[i].sleeps) = call[i].attempt
       /\ call[i].pc = "sleep" => Len(call[i].sleeps) = call[i].attempt + 1
       /\ call[i].pc = "done" => Len(call[i].sleeps) = call[i].attempt
       /\ Len(call[i].sleeps) <= config.max_retries

\* no backoff delay of the configuration overflows u64
NoDelayOverflow ==
    \A a \in 0..(config.max_retries - 1) : ~retry_delay(config, a).ovf

\* C5, C6 away from the overflow: with a configuration none of whose delays
\* overflows u64, the invocation count and the backoff delays are as stated
C5_C6_HoldWithoutOverflow ==
    NoDelayOverflow => (C5_InvocationCount /\ C6_BackoffDelays)

\* C7: when all max_retries + 1 attempts of an admitted call failed, the call
\* returns the error of the final attempt, and record_failure() was called
\* exactly max_retries + 1 times for it.
C7_LastErrorReturned ==
    \A i \in Callers :
       (call[i].gate = "true" /\ call[i].pc = "done" /\ call[i].outcome /= "Ok") =>
          /\ call[i].invocations = config.max_retries + 1
          /\ call[i].result = call[i].outcome
          /\ call[i].recorded = config.max_retries + 1

\* C7 witness: three attempts failed, the first and the last with different
\* errors, and the call returned the last one
C7_Witness ==
    /\ config.max_retries = 2
    /\ call["c1"].pc = "done"
    /\ call["c1"].invocations = 3
    /\ call["c1"].first_error = "ServiceUnavailable"
    /\ call["c1"].outcome = "InvalidResponse"
    /\ call["c1"].result = "InvalidResponse"

(***************************************************************************)
(* Claims about the coordinator, checked under SpecCoord                   *)
(***************************************************************************)
\* C8: a shutdown_all() call over components registered as c1..cn invokes
\* their shutdown() in the order cn, ..., c1: the k-th invocation of the
\* call is of component n - k + 1, so none is invoked twice, and when the
\* call returns all n have been invoked.
C8_ReverseRegistrationOrder ==
    /\ \A k \in 1..Len(sa.calls) : sa.calls[k] = sa.n - k + 1
    /\ sa.pc = "returned" => Len(sa.calls) = sa.n
    /\ sa.pc \in { "loop", "await" } => sa.n = Len(components)

\* C8 witness: A, B, C registered, and a shutdown_all() call has returned
\* after invoking C, B, A
C8_Witness ==
    /\ Len(components) = 3
    /\ sa.pc = "returned"
    /\ sa.calls = << 3, 2, 1 >>

\* C9: shutdown_all() returns Ok whatever the components returned, and not
\* before each of them has been invoked and has returned: an Err from one
\* component does not end the call.
C9_AlwaysOkAndAllInvoked ==
    /\ sa.result \in { "none", "Ok" }
    /\ sa.pc = "returned" =>
          /\ sa.result = "Ok"
          /\ Len(sa.outcomes) = sa.n
          /\ \A k \in 1..sa.n : components[k].shutdown_called

\* C9 witness: two components, both failed, the first one in teardown order
\* did not keep the second from being invoked, and shutdown_all() returned Ok
C9_Witness ==
    /\ sa.pc = "returned"
    /\ sa.result = "Ok"
    /\ sa.n = 2
    /\ sa.calls = << 2, 1 >>
    /\ sa.outcomes = << "ResourceCleanup", "ResourceCleanup" >>

(***************************************************************************)
(* Claims about execute_shutdown, checked under SpecOrch                   *)
(***************************************************************************)
\* C10 as stated: execute_shutdown returns Err(Timeout) if and only if the
\* deadline elapsed before shutdown_fn completed, and otherwise returns
\* shutdown_fn's own result.
C10_TimeoutIffDeadlineFirst ==
    orch.pc = "returned" =>
       /\ (orch.result = "Timeout") <=> orch.overdue
       /\ ~orch.overdue => orch.result = fn.result

\* C10 amended: execute_shutdown ends in one of two ways. Either shutdown_fn
\* was found complete when polled, and its own result is returned unchanged,
\* also when the deadline had already elapsed and also when that result is
\* Err(Timeout); or shutdown_fn was dropped incomplete, the deadline had
\* elapsed before it completed, and Err(Timeout) is returned. If the
\* deadline did not elapse before shutdown_fn completed, the result is
\* shutdown_fn's own.
C10_ResultOfExecuteShutdown ==
    orch.pc = "returned" =>
       /\ fn.state \in { "completed", "dropped" }
       /\ fn.state = "completed" => orch.result = fn.result
       /\ fn.state = "dropped" =>
             /\ orch.result = "Timeout"
             /\ orch.overdue
             /\ fn.remaining > 0
       /\ ~orch.overdue => fn.state = "completed"

\* C10 witness: shutdown_fn completed with an error within the deadline and
\* execute_shutdown returned that error
C10_Witness ==
    /\ orch.pc = "returned"
    /\ ~orch.overdue
    /\ fn.state = "completed"
    /\ fn.result = "Database"
    /\ orch.result = "Database"
    /\ orch.elapsed > 0

\* C10 second case reached: the deadline elapsed first and shutdown_fn was dropped
C10_WitnessTimeout ==
    /\ orch.pc = "returned"
    /\ fn.state = "dropped"
    /\ orch.result = "Timeout"
    /\ fn.result = "Ok"

(***************************************************************************)
(* Claims about main(), checked under SpecMain                             *)
(***************************************************************************)
\* C11: whichever of an interrupt signal, a terminate signal or an error of
\* the serving loop ends Running, the coordinator's teardown (shutdown_all()
\* under execute_shutdown) has been run by the time the process terminates.
C11_TeardownBeforeTermination ==
    main.pc = "terminated" => (sa.runs >= 1 /\ orch.pc = "returned")

\* shutdown() has been invoked on every registered component
AllInvoked == \A k \in 1..Len(components) : components[k].calls >= 1

\* C12 as stated: once execute_shutdown has started shutdown_all(), the
\* sequence is never aborted part-way, and every registered component has had
\* shutdown() invoked when the process terminates.
C12_TeardownNeverAborted ==
    sa.runs >= 1 =>
       /\ sa.pc /= "dropped"
       /\ main.pc = "terminated" => AllInvoked

\* C12: once execute_shutdown has started shutdown_all(), the components are
\* invoked in the coordinator's order whatever the earlier ones returned, and
\* the sequence is cut short only by the deadline of execute_shutdown: it is
\* dropped only with the deadline elapsed and Err(Timeout) returned, and
\* otherwise main terminates with Ok and every component invoked.
C12_CompleteUnlessDeadline ==
    sa.runs >= 1 =>
       /\ \A j \in 1..Len(sa.calls) : sa.calls[j] = shutdown_order(sa.n)[j]
       /\ sa.pc = "dropped" =>
             (orch.elapsed >= orch.shutdown_timeout /\ orch.result = "Timeout")
       /\ orch.pc = "returned" =>
             \/ orch.result = "Timeout" /\ sa.pc = "dropped"
             \/ /\ orch.result = "Ok"
                /\ sa.pc = "returned"
                /\ AllInvoked
                /\ Len(sa.outcomes) = Len(components)
       /\ main.pc = "terminated" => main.result = orch.result

\* C12 witness: main terminated with Ok after a teardown of all five
\* components in which one component returned an error
C12_Witness ==
    /\ main.pc = "terminated"
    /\ main.result = "Ok"
    /\ Len(components) = 5
    /\ AllInvoked
    /\ \E j \in 1..Len(sa.outcomes) : sa.outcomes[j] /= "Ok"

\* C12 witness of the other case: the deadline elapsed with components left
C12_WitnessDeadline ==
    /\ main.pc = "terminated"
    /\ main.result = "Timeout"
    /\ ~AllInvoked
    /\ Len(sa.calls) >= 2

\* the position of the component of the given kind in the coordinator
KindIndex(kind) == CHOOSE k \in 1..Len(components) : components[k].kind = kind

\* C20: main registers the database component before the external-service
\* component, and so at teardown the database pool is closed only after the
\* external client has been cleaned up.
C20_DatabaseClosedAfterExternal ==
    main.pc /= "init" =>
       /\ KindIndex("Database") < KindIndex("ExternalService")
       /\ components[KindIndex("Database")].calls >= 1 =>
             components[KindIndex("ExternalService")].rets /= << >>

(***************************************************************************)
(* Claims about the shutdown components, checked under SpecComp            *)
(***************************************************************************)
\* C13: for each component that owns a handle (HTTP server, database,
\* external service, tracing) the resource is operated on at most once over
\* any number of shutdown() calls: the first call takes the handle and every
\* later call returns Ok without touching the resource, whatever the first
\* call returned.
C13_HandleConsumedAtMostOnce ==
    \A k \in 1..Len(components) :
       LET c == components[k]
       IN  c.kind \in HandleKinds =>
              /\ c.uses <= 1
              /\ c.calls >= 1 => (c.uses = 1 /\ ~c.handle)
              /\ \A j \in 2..Len(c.rets) : c.rets[j] = [ ret |-> "Ok", timed_out |-> FALSE ]

\* C13 witness: a second shutdown() returned after the first returned an error
C13_Witness ==
    \E k \in 1..Len(components) :
       /\ components[k].kind \in HandleKinds
       /\ Len(components[k].rets) >= 2
       /\ components[k].rets[1].ret /= "Ok"
       /\ components[k].uses = 1

C21_CleanupAlwaysOk ==
    \A k \in 1..Len(components) :
       components[k].kind = "General" =>
          \A j \in 1..Len(components[k].rets) : components[k].rets[j].ret = "Ok"

(***************************************************************************)
(* Claims about reset_circuit_breaker, checked under SpecCB                *)
(***************************************************************************)
\* C14: reset_circuit_breaker(), applied in any reachable state of the
\* breaker, leaves it Closed with failure_count = 0, success_count = 0 and
\* last_failure_time = None, and a can_execute() made then returns true.
C14_ResetClosesAndClears ==
    last_op = "reset" =>
       /\ cb.state = "Closed"
       /\ cb.failure_count = 0
       /\ cb.success_count = 0
       /\ cb.last_failure_time = None
       /\ can_execute(cb, now).ret

\* C14 witness: the breaker was reset while Open
C14_Witness ==
    /\ last_op = "reset"
    /\ rec.from_state = "Open"
    /\ rec.ever_failed

\* C14 witness: the breaker was reset while HalfOpen
C14_WitnessHalfOpen ==
    /\ last_op = "reset"
    /\ rec.from_state = "HalfOpen"

\* C15 as stated: last_failure_time is None only if no failure has ever been
\* recorded on the breaker.
C15_NoneOnlyIfNeverFailed ==
    cb.last_failure_time = None => ~rec.ever_failed

\* C15: last_failure_time is None exactly when no failure has been recorded
\* since the breaker was built or last reset.
C15_NoneIffNoFailureSinceReset ==
    (cb.last_failure_time = None) <=> ~rec.failed_since_reset

\* C15 witness: a failure was recorded and the breaker reset afterwards
C15_Witness ==
    /\ rec.ever_failed
    /\ ~rec.failed_since_reset
    /\ cb.last_failure_time = None

(***************************************************************************)
(* Claims about the HTTP operations, checked under SpecHttp                *)
(***************************************************************************)
\* C18: health_check(url) never returns an error: whatever the GET gave
\* (success, a classified failure after the retries, CircuitBreakerOpen) it
\* returns Ok, with is_healthy = true and error_message = None exactly when
\* the GET succeeded, is_healthy = false and the error as error_message
\* otherwise, and with the state the breaker has when the status is built,
\* after the GET returned.
C18_HealthCheckNeverErrs ==
    /\ [](req.health /\ req.pc = "returned" =>
            LET h == req.hc[1]
            IN  /\ h.ret = "Ok"
                /\ h.is_healthy <=> req.result = "Ok"
                /\ h.is_healthy => h.error_message = None
                /\ ~h.is_healthy => h.error_message = Some(req.result))
    /\ [][(req.pc = "got" /\ req'.pc = "returned") =>
             req'.hc[1].circuit_breaker_state = cb.state]_vars

\* C18 witness: a health check whose GET was rejected by the open breaker
C18_Witness ==
    /\ req.health
    /\ req.pc = "returned"
    /\ req.result = "CircuitBreakerOpen"
    /\ ~req.hc[1].is_healthy

\* C18 witness: a healthy check
C18_WitnessHealthy ==
    /\ req.health
    /\ req.pc = "returned"
    /\ req.hc[1].is_healthy

\* C18 witness: the breaker changed between the return of the GET and the
\* status, and the status carries the later state
C18_WitnessLaterState ==
    /\ req.health
    /\ req.pc = "returned"
    /\ req.hc[1].circuit_breaker_state /= req.state_at_return

\* the classification as C19 states it, one table for every verb
StatedOutcome(r) ==
    IF r.error
    THEN IF r.is_timeout THEN "Timeout" ELSE "ServiceUnavailable"
    ELSE IF is_success(r.status) THEN "Ok"
    ELSE IF is_server_error(r.status) THEN "ServiceUnavailable"
    ELSE IF r.status = 429 THEN "RateLimitExceeded"
    ELSE InvalidResponse(r.status)

\* C19 as stated: every verb classifies the outcome of an attempt by the same
\* function: 2xx success, 5xx ServiceUnavailable, 429 RateLimitExceeded, any
\* other status InvalidResponse with the status, a timeout Timeout, any other
\* failure of the request ServiceUnavailable.
C19_SameClassification ==
    req.class /= "none" =>
       /\ req.class = StatedOutcome(req.resp[1])
       /\ \A v \in Verbs : operation(v, req.resp[1]) = req.class

\* the classification by cases
ExpectedOutcome(verb, r) ==
    CASE r.error /\ r.is_timeout                    -> "Timeout"
      [] r.error /\ ~r.is_timeout /\ r.is_connect   -> "ServiceUnavailable"
      [] r.error /\ ~r.is_timeout /\ ~r.is_connect  -> "Http"
      [] ~r.error /\ r.status \in 200..299 ->
            IF verb = "DELETE" \/ r.json THEN "Ok" ELSE "InvalidResponse(json)"
      [] ~r.error /\ r.status \in 500..599          -> "ServiceUnavailable"
      [] ~r.error /\ r.status = 429                 -> "RateLimitExceeded"
      [] OTHER                                      -> InvalidResponse(r.status)

\* C19: request failures and non-2xx statuses are classified alike by all
\* five operations: a timeout is Timeout, a connect failure ServiceUnavailable,
\* any other request failure Http; 5xx is ServiceUnavailable, 429
\* RateLimitExceeded, any other non-2xx InvalidResponse with the status. A 2xx
\* is a success for DELETE whatever its body, and for GET, POST, PUT and
\* custom requests a success only if the body parses as JSON, InvalidResponse
\* otherwise.
C19_Classification ==
    req.class /= "none" =>
       LET r == req.resp[1]
       IN  /\ req.class = ExpectedOutcome(req.verb, r)
           /\ \A v \in Verbs :
                 ( \/ (v /= "DELETE" /\ req.verb /= "DELETE")
                   \/ r.error
                   \/ ~is_success(r.status)
                   \/ r.json ) => operation(v, r) = req.class

\* C19 witness: a DELETE answered 2xx with a body that is not JSON succeeded
C19_Witness ==
    /\ req.verb = "DELETE"
    /\ req.class = "Ok"
    /\ req.resp /= None
    /\ ~req.resp[1].json

\* C19 witness: a POST answered 429
C19_WitnessRateLimit ==
    /\ req.verb = "POST"
    /\ req.class = "RateLimitExceeded"

(***************************************************************************)
(* Claims about the gate of execute_with_retry, checked under SpecClient   *)
(***************************************************************************)
\* the breaker c is Open and less than its timeout has elapsed at time t
\* since the last failure
Cooling(c, t) ==
    /\ c.state = "Open"
    /\ c.last_failure_time /= None
    /\ Elapsed(c.last_failure_time[1], t) < c.timeout

\* C22: no attempt of the operation, first or retry, is begun while the
\* breaker is Open with less than open_timeout elapsed since the last
\* failure, also when the breaker opened during the same call.
C22_NoInvocationWhileOpen ==
    [][ \A i \in Callers :
           (call[i].pc /= "attempt" /\ call'[i].pc = "attempt") => ~Cooling(cb', now') ]_vars

\* C23: record_success() is never applied while the breaker is Open: no
\* attempt that returned Ok is recorded in state Open.
C23_NoSuccessRecordedInOpen ==
    [][ \A i \in Callers :
           (call[i].pc = "attempt" /\ call'[i].pc = "done" /\ call'[i].outcome = "Ok")
              => cb.state /= "Open" ]_vars

(***************************************************************************)
(* Claims about several callers on one breaker, checked under SpecConc     *)
(***************************************************************************)
\* C24: between entering HalfOpen and leaving it, at most
\* half_open_max_calls (3) calls of execute_with_retry pass the
\* can_execute() gate, also when the callers run concurrently.
C24_AtMostThreeAdmitted ==
    mutex.admitted <= HalfOpenMaxCalls

\* the section of the task that holds the guard can run to its end
SectionEnabled(a) ==
    IF a = "admin"
    THEN ENABLED (StatusSection \/ ResetSection)
    ELSE ENABLED (\/ CanExecuteSection(a)
                  \/ RecordSuccessSection(a)
                  \/ \E e \in OpErrors : RecordFailureSection(a, e))

\* C25: the lock sections of can_execute, record_success, record_failure,
\* status and reset exclude one another (at most one task holds the guard,
\* and the breaker a holder works on is the breaker it found, so no update
\* of another task is lost), the guard is never held by a caller that is in
\* its backoff sleep or has the operation still to start, and the holder
\* can always finish its section, so the tasks never deadlock on the
\* breaker.
C25_LockSectionsAtomic ==
    /\ Cardinality(mutex.holders) <= 1
    /\ \A a \in Tasks :
          /\ a \in mutex.holders <=> mutex.section[a] /= "none"
          /\ a \in mutex.holders => mutex.seen[a] = Some(cb) /\ SectionEnabled(a)
    /\ \A i \in Callers :
          /\ call[i].pc \in { "sleep", "done", "panicked" } => i \notin mutex.holders
          /\ mutex.section[i] = "can_execute" => call[i].pc = "idle"
          /\ mutex.section[i] \in { "record_success", "record_failure" }
                => call[i].pc = "attempt"

\* a caller holds the guard to record a failure while the other caller,
\* after a failure and its backoff sleep, has its retry in flight and the
\* breaker has already counted a failure
C25_Witness ==
    /\ mutex.holders = { "c1" }
    /\ mutex.section["c1"] = "record_failure"
    /\ call["c2"].pc = "attempt"
    /\ call["c2"].attempt = 1
    /\ cb.failure_count >= 1

\* the task that resets the breaker holds the guard while both callers
\* have the operation in flight
C25_WitnessReset ==
    /\ mutex.holders = { "admin" }
    /\ mutex.section["admin"] = "reset"
    /\ cb.state = "Open"
    /\ \A i \in Callers : call[i].pc = "attempt"

(***************************************************************************)
(* Claims about the order of the teardown, checked under SpecMain          *)
(***************************************************************************)
\* C26: shutdown_all() runs the components strictly one at a time: at most
\* one shutdown() is in progress, a component is invoked only after the
\* shutdown() of every component before it in teardown order has returned,
\* and the coordinator goes on to the next component only when the current
\* one has returned by itself (its work done, or its own timeout elapsed):
\* the coordinator imposes no timeout of its own on a slow component.
C26_OneComponentAtATime ==
    /\ [] /\ Len(sa.calls) = Len(sa.outcomes) + (IF sa.pc \in { "await", "dropped" } THEN 1 ELSE 0)
          /\ \A j \in 1..Len(sa.calls) : sa.calls[j] = shutdown_order(sa.n)[j]
          /\ active.state /= "none" =>
                /\ sa.pc = "await"
                /\ active.k = sa.calls[Len(sa.calls)]
          /\ \A k \in 1..Len(components) :
                /\ components[k].calls <= 1
                /\ Len(components[k].rets) <= components[k].calls
                /\ components[k].calls = 1 =>
                      \E j \in 1..Len(sa.calls) :
                         /\ sa.calls[j] = k
                         /\ \A h \in 1..(j - 1) : components[sa.calls[h]].rets /= << >>
    /\ [][ Len(sa'.outcomes) > Len(sa.outcomes) =>
             /\ active.state = "working"
             /\ \/ active.work = 0
                \/ /\ components[active.k].kind /= "HttpServer"
                   /\ active.waited >= components[active.k].timeout ]_vars

\* the HTTP server, last in teardown order, is still at work after the
\* time that ends the wait of every other component, and shutdown_all()
\* is still awaiting it
C26_Witness ==
    /\ sa.pc = "await"
    /\ Len(sa.outcomes) = Len(components) - 1
    /\ active.state = "working"
    /\ components[active.k].kind = "HttpServer"
    /\ active.work > 0
    /\ active.waited >= main.timeout

\* the kinds of the components in the order of the teardown of main
TeardownKinds ==
    IF main.tracing_guard
    THEN << "Tracing", "General", "Database", "ExternalService", "HttpServer" >>
    ELSE << "General", "Database", "ExternalService", "HttpServer" >>

\* C30: main registers HTTP server, external service, database, general
\* cleanup and (when there is a guard) tracing, in that order, and the
\* teardown begun by a shutdown signal invokes tracing first, then general
\* cleanup, database, external service and the HTTP server last: the HTTP
\* server's shutdown() is invoked only after the shutdown() of the database
\* and of the tracing component have returned.
C30_TeardownOrderOfMain ==
    main.pc /= "init" =>
       /\ Len(components) = Len(TeardownKinds)
       /\ \A k \in 1..Len(components) :
             components[k].kind = TeardownKinds[Len(components) - k + 1]
       /\ sa.runs >= 1 => main.trigger \in { "SIGINT", "SIGTERM" }
       /\ Len(sa.calls) <= Len(TeardownKinds)
       /\ \A j \in 1..Len(sa.calls) : components[sa.calls[j]].kind = TeardownKinds[j]
       /\ \A k \in 1..Len(components) :
             components[k].calls >= 1 =>
                \E j \in 1..Len(sa.calls) : sa.calls[j] = k
       /\ components[KindIndex("HttpServer")].calls >= 1 =>
             \A k \in 1..Len(components) :
                components[k].kind \in { "Database", "Tracing" } => components[k].rets /= << >>

\* the teardown ran to its end with the tracing component registered: the
\* HTTP server was the fifth component invoked, and main returned Ok
C30_Witness ==
    /\ main.pc = "terminated"
    /\ main.trigger = "SIGTERM"
    /\ main.result = "Ok"
    /\ main.tracing_guard
    /\ Len(sa.calls) = 5
    /\ components[sa.calls[5]].kind = "HttpServer"
    /\ components[sa.calls[5]].rets /= << >>

(***************************************************************************)
(* Further claims about the breaker, checked under SpecCB                  *)
(***************************************************************************)
\* C27: record_failure() applied while the breaker is Open leaves the state
\* Open and success_count as it was, adds one to failure_count and sets
\* last_failure_time to now; so the cooldown runs from this failure:
\* can_execute() refuses until open_timeout has elapsed since it, and
\* admits from then on.
C27_FailureWhileOpen ==
    [][ (last_op' = "record_failure" /\ cb.state = "Open") =>
           /\ cb'.state = "Open"
           /\ cb'.success_count = cb.success_count
           /\ cb'.failure_count = cb.failure_count + 1
           /\ cb'.last_failure_time = Some(now)
           /\ cb'.failure_threshold = cb.failure_threshold
           /\ cb'.timeout = cb.timeout
           /\ \A t \in now..(now + MaxOpenTimeout) :
                 can_execute(cb', t).ret = (t - now >= cb.timeout) ]_vars

\* a failure has just been recorded on a breaker that was already Open and
\* had its earlier failure before now
C27_Witness ==
    /\ last_op = "record_failure"
    /\ rec.from_state = "Open"
    /\ cb.state = "Open"
    /\ cb.failure_count >= 2
    /\ now >= 1
    /\ cb.last_failure_time = Some(now)

(***************************************************************************)
(* Claim about the value execute_with_retry returns, under SpecClient      *)
(***************************************************************************)
\* C28: execute_with_retry never returns RetryExhausted: a call that passed
\* the gate makes at least one attempt for every max_retries >= 0, and when
\* the loop ends without a success, after max_retries + 1 attempts, the
\* error of the last attempt has been captured and is the value returned.
C28_NeverRetryExhausted ==
    \A i \in Callers :
       /\ call[i].result /= "RetryExhausted"
       /\ (call[i].pc = "done" /\ call[i].gate = "true") =>
             /\ call[i].invocations >= 1
             /\ call[i].result /= "Ok" =>
                   /\ call[i].invocations = config.max_retries + 1
                   /\ call[i].last_error /= None
                   /\ call[i].result = call[i].last_error[1]
                   /\ call[i].result \in OpErrors

\* with max_retries = 0 the loop made its one attempt, which failed, and
\* the call returned the error of that attempt
C28_Witness ==
    /\ config.max_retries = 0
    /\ call["c1"].pc = "done"
    /\ call["c1"].gate = "true"
    /\ call["c1"].invocations = 1
    /\ call["c1"].result = "ServiceUnavailable"

\* the loop ran all of its max_retries + 1 attempts, with different errors
C28_WitnessRetries ==
    /\ config.max_retries = 2
    /\ call["c1"].pc = "done"
    /\ call["c1"].invocations = 3
    /\ call["c1"].result = "InvalidResponse"
    /\ call["c1"].first_error = "ServiceUnavailable"

\* C29: for failure_threshold >= 1, under every sequence of can_execute,
\* record_success, record_failure and reset: while the state is Closed,
\* failure_count < failure_threshold; while it is HalfOpen, success_count <
\* half_open_max_calls, so that can_execute() returns true; and
\* success_count <= half_open_max_calls in every state.
C29_CounterInvariant ==
    cb.failure_threshold >= 1 =>
       /\ cb.state = "Closed" => cb.failure_count < cb.failure_threshold
       /\ cb.state = "HalfOpen" =>
             /\ cb.success_count < cb.half_open_max_calls
             /\ can_execute(cb, now).ret
       /\ cb.success_count <= cb.half_open_max_calls

\* the breaker is Closed again after a probation: the third success closed
\* it, with success_count left at half_open_max_calls and failure_count 0
C29_Witness ==
    /\ cb.failure_threshold >= 1
    /\ last_op = "record_success"
    /\ rec.from_state = "HalfOpen"
    /\ cb.state = "Closed"
    /\ cb.success_count = cb.half_open_max_calls
    /\ cb.failure_count = 0

\* the breaker is HalfOpen one success short of closing, after as many
\* failures as its threshold
C29_WitnessHalfOpen ==
    /\ cb.failure_threshold >= 1
    /\ cb.state = "HalfOpen"
    /\ cb.success_count = cb.half_open_max_calls - 1
    /\ cb.failure_count >= cb.failure_threshold

====
